---- MODULE Spec2Model ----
(***************************************************************************)
(* TTSTT: a text-to-speech / speech-to-text wrapper (src/ttstt/src/lib.rs).*)
(* The model covers the TtsttState object (provider registry, API keys,    *)
(* recorded defaults, admin key, storage flag), the VFS drive that holds   *)
(* the audio-text pairs, and every request handler of the process.         *)
(* Handlers without an await are one action; tts and stt are split at      *)
(* their awaits (the provider call and each VFS call of the save).         *)
(***************************************************************************)
EXTENDS Integers, Sequences, FiniteSets, TLC

VARIABLES
    providers,              \* TtsttState.providers: Vec<ProviderConfig>
    api_keys,               \* TtsttState.api_keys: Vec<ApiKey>
    default_tts_provider,   \* TtsttState.default_tts_provider: Option<Provider>
    default_stt_provider,   \* TtsttState.default_stt_provider: Option<Provider>
    admin_key,              \* TtsttState.admin_key: String
    storage_initialized,    \* TtsttState.storage_initialized: bool
    started,                \* the #[init] handler has run at least once
    drive,                  \* the audio_pairs drive exists in the VFS
    vfs,                    \* the pair directories of the drive: name -> files
    clock,                  \* Utc::now(), one tick per reading
    key_serial,             \* number of Uuid::new_v4() values drawn for keys
    pair_serial,            \* number of Uuid::new_v4() values drawn for pairs
    req,                    \* the tts/stt request suspended at an await
    last,                   \* the response of the handler that returned last
    saved,                  \* history: the pairs whose save returned Ok, in order
    second_admin,           \* history: a generated Admin key was once pushed
    retrieved               \* history: get_admin_key has once returned Ok

vars == <<providers, api_keys, default_tts_provider, default_stt_provider,
          admin_key, storage_initialized, started, drive, vfs, clock,
          key_serial, pair_serial, req, last, saved, second_admin, retrieved>>

-----------------------------------------------------------------------------
(* Option<T>: None is the empty sequence, Some(x) the one-element sequence. *)

None == <<>>

Some(x) == <<x>>

IsSome(o) == Len(o) = 1

UnwrapOr(o, d) == IF IsSome(o) THEN o[1] ELSE d

OrElse_second_only(o, p) == p

OrElse(o, p) == IF IsSome(o) THEN o ELSE p

(* Result<T, String> *)

Ok(v) == [ok |-> TRUE, val |-> v]

Err(e) == [ok |-> FALSE, err |-> e]

-----------------------------------------------------------------------------
(* Enums.  serde writes a unit variant as its name (Provider::OpenAI is    *)
(* renamed to "OpenAI").                                                   *)

OpenAI == "Provider::OpenAI"

Provider == {OpenAI}

Admin == "ApiKeyRole::Admin"

Requestor == "ApiKeyRole::Requestor"

ApiKeyRole == {Admin, Requestor}

TTS == "RequestType::TTS"

STT == "RequestType::STT"

ProviderToJson(p) == IF p = OpenAI THEN "OpenAI" ELSE "?"

RequestTypeToJson(t) == IF t = TTS THEN "TTS" ELSE "STT"

-----------------------------------------------------------------------------
(* Sequence helpers; Vec::retain is SelectSeq.                               *)

Min(a, b) == IF a < b THEN a ELSE b

-----------------------------------------------------------------------------
(* base64 STANDARD engine.  A base64 text is a sequence of symbol codes:    *)
(* 0..63 are the alphabet and Pad is '='.                                   *)
(* Bytes are 0..255.                                                        *)

Pad == 64

EncodeChunk(c) ==
    IF Len(c) = 3 THEN
        LET n == c[1] * 65536 + c[2] * 256 + c[3]
        IN  <<n \div 262144, (n \div 4096) % 64, (n \div 64) % 64, n % 64>>
    ELSE IF Len(c) = 2 THEN
        LET n == (c[1] * 256 + c[2]) * 4
        IN  <<n \div 4096, (n \div 64) % 64, n % 64, Pad>>
    ELSE
        LET n == c[1] * 16
        IN  <<n \div 64, n % 64, Pad, Pad>>

RECURSIVE Base64Encode(_)
Base64Encode(bytes) ==
    IF bytes = <<>> THEN <<>>
    ELSE IF Len(bytes) <= 3 THEN EncodeChunk(bytes)
    ELSE EncodeChunk(SubSeq(bytes, 1, 3)) \o Base64Encode(SubSeq(bytes, 4, Len(bytes)))

(* One quantum of four symbols; last tells whether padding is allowed.      *)
DecodeChunk(q, isLast) ==
    LET sym(i) == q[i] \in 0..63
    IN  IF sym(1) /\ sym(2) /\ sym(3) /\ sym(4) THEN
            LET n == q[1] * 262144 + q[2] * 4096 + q[3] * 64 + q[4]
            IN  Ok(<<n \div 65536, (n \div 256) % 256, n % 256>>)
        ELSE IF isLast /\ sym(1) /\ sym(2) /\ sym(3) /\ q[4] = Pad THEN
            LET n == q[1] * 4096 + q[2] * 64 + q[3]
            IN  IF n % 4 = 0
                THEN Ok(<<n \div 1024, (n \div 4) % 256>>)
                ELSE Err("Invalid last symbol")
        ELSE IF isLast /\ sym(1) /\ sym(2) /\ q[3] = Pad /\ q[4] = Pad THEN
            LET n == q[1] * 64 + q[2]
            IN  IF n % 16 = 0
                THEN Ok(<<n \div 16>>)
                ELSE Err("Invalid last symbol")
        ELSE Err("Invalid byte")

RECURSIVE Base64Decode(_)
Base64Decode(text) ==
    IF text = <<>> THEN Ok(<<>>)
    ELSE IF Len(text) < 4 THEN Err("Invalid length")
    ELSE LET first == DecodeChunk(SubSeq(text, 1, 4), Len(text) = 4)
         IN  IF ~first.ok THEN first
             ELSE LET rest == Base64Decode(SubSeq(text, 5, Len(text)))
                  IN  IF rest.ok THEN Ok(first.val \o rest.val) ELSE rest

-----------------------------------------------------------------------------
(* serde_json.  A JSON value is tagged with its type; a document is a       *)
(* record of values; the text of a document is what one write puts in the   *)
(* file, and the empty file does not parse.                                 *)

JStr(s) == [t |-> "string", v |-> s]

JArr(a) == [t |-> "array", v |-> a]

JNull == [t |-> "null", v |-> <<>>]

AsStrOr(j, d) == IF j.t = "string" THEN j.v ELSE d

EmptyFile == <<>>

JsonText(doc) == <<doc>>

JsonParse(content) ==
    IF content = EmptyFile THEN Err("EOF while parsing a value")
    ELSE Ok(content[1])

ProviderFromJson(j) ==
    IF j.t = "string" /\ j.v = "OpenAI" THEN OpenAI ELSE OpenAI

RequestTypeFromJson_always_default(j) == TTS

RequestTypeFromJson(j) ==
    IF j.t = "string" /\ j.v = "STT" THEN STT
    ELSE TTS

MetadataToJson(m) == JArr([i \in DOMAIN m |-> JArr(<<JStr(m[i][1]), JStr(m[i][2])>>)])

MetadataFromJson(j) ==
    IF j.t # "array" THEN <<>>
    ELSE LET good(e) == e.t = "array" /\ Len(e.v) = 2
             kept == SelectSeq(j.v, good)
         IN  [i \in DOMAIN kept |->
                 <<AsStrOr(kept[i].v[1], ""), AsStrOr(kept[i].v[2], "")>>]

-----------------------------------------------------------------------------
(* API keys.  format!("ttstt-{}-{}", "admin" | "req", Uuid::new_v4()) is    *)
(* the triple of its parts; the uuid of a key is the serial number of the   *)
(* draw, since only the distinctness of key uuids is observable.            *)

EmptyString == <<>>

KeyString(role, uuid) == <<"ttstt", IF role = Admin THEN "admin" ELSE "req", uuid>>

ApiKey(key, role, created_at, name) ==
    [key |-> key, role |-> role, created_at |-> created_at, name |-> name]

(* k.key[..20.min(k.key.len())] followed by "...": the prefix and role part *)
(* of the key (12 or 10 characters) and the leading digits of its uuid.     *)
KeyPreview(key) == <<key[1], key[2], "...">>

ApiKeyInfo(k) ==
    [name |-> k.name, role |-> k.role, created_at |-> k.created_at,
     key_preview |-> KeyPreview(k.key)]

Find(keys, key) == SelectSeq(keys, LAMBDA k : k.key = key)

validate_api_key_no_role(keys, api_key, require_admin) ==
    IF ~IsSome(api_key) THEN Err("API key required")
    ELSE IF Find(keys, api_key[1]) = <<>> THEN Err("Invalid API key")
    ELSE Ok(<<>>)

validate_api_key_one_error(keys, api_key, require_admin) ==
    IF ~IsSome(api_key) \/ Find(keys, UnwrapOr(api_key, EmptyString)) = <<>>
    THEN Err("Invalid API key")
    ELSE IF require_admin /\ Find(keys, api_key[1])[1].role # Admin
         THEN Err("Admin permission required")
         ELSE Ok(<<>>)

validate_api_key(keys, api_key, require_admin) ==
    IF ~IsSome(api_key) THEN Err("API key required")
    ELSE LET found == Find(keys, api_key[1])
         IN  IF found = <<>> THEN Err("Invalid API key")
             ELSE IF require_admin /\ found[1].role # Admin
                  THEN Err("Admin permission required")
                  ELSE Ok(<<>>)

-----------------------------------------------------------------------------
(* Provider registry.                                                       *)

ProviderConfig(provider, api_key, tts, stt, voice, speed) ==
    [provider |-> provider, api_key |-> api_key,
     is_default_tts |-> tts, is_default_stt |-> stt,
     default_voice |-> voice, default_speed |-> speed]

ProviderInfo(p) ==
    [provider |-> p.provider,
     is_default_tts |-> p.is_default_tts, is_default_stt |-> p.is_default_stt,
     default_voice |-> p.default_voice, default_speed |-> p.default_speed]

(* format!("Provider {:?} not configured", provider) *)
NotConfigured(provider) ==
    CASE provider = OpenAI -> "Provider OpenAI not configured"

get_provider_config_unchecked(ps, provider) ==
    LET found == SelectSeq(ps, LAMBDA p : p.provider = provider)
    IN  IF found = <<>>
        THEN Ok(ProviderConfig(provider, EmptyString, FALSE, FALSE, None, None))
        ELSE Ok(found[1])

get_provider_config(ps, provider) ==
    LET found == SelectSeq(ps, LAMBDA p : p.provider = provider)
    IN  IF found = <<>> THEN Err(NotConfigured(provider))
        ELSE Ok(found[1])

RetainOthers_keep_first(ps, provider) == IF ps = <<>> THEN ps ELSE <<ps[1]>>

RetainOthers_keep_all(ps, provider) == ps

RetainOthers(ps, provider) == SelectSeq(ps, LAMBDA p : p.provider # provider)

ClearDefaultTts(ps) == [i \in DOMAIN ps |-> [ps[i] EXCEPT !.is_default_tts = FALSE]]

ClearDefaultStt(ps) == [i \in DOMAIN ps |-> [ps[i] EXCEPT !.is_default_stt = FALSE]]

MarkDefaultTts(ps, provider) ==
    [i \in DOMAIN ps |-> [ps[i] EXCEPT !.is_default_tts = (ps[i].provider = provider)]]

MarkDefaultStt(ps, provider) ==
    [i \in DOMAIN ps |-> [ps[i] EXCEPT !.is_default_stt = (ps[i].provider = provider)]]

-----------------------------------------------------------------------------
(* Responses.                                                               *)

Returned(op, result) ==
    [op |-> op, ok |-> result.ok,
     out |-> IF result.ok THEN result.val ELSE result.err]

Idle == [pc |-> "idle"]

Init ==
    /\ providers = <<>>
    /\ api_keys = <<>>
    /\ default_tts_provider = None
    /\ default_stt_provider = None
    /\ admin_key = EmptyString
    /\ storage_initialized = FALSE
    /\ started = FALSE
    /\ drive = FALSE
    /\ vfs = <<>>
    /\ clock = 0
    /\ key_serial = 0
    /\ pair_serial = 0
    /\ req = Idle
    /\ last = [op |-> "none", ok |-> TRUE, out |-> <<>>]
    /\ saved = <<>>
    /\ second_admin = FALSE
    /\ retrieved = FALSE

ensure_storage_initialized_retrying(drive_ok) ==
    /\ drive' = (drive \/ drive_ok)
    /\ storage_initialized' = TRUE

(* drive_ok is the outcome of create_drive, which also fails when the drive *)
(* exists already; the step returns Ok(()) on every path.                   *)
ensure_storage_initialized(drive_ok) ==
    IF storage_initialized
    THEN UNCHANGED <<drive, storage_initialized>>
    ELSE /\ drive' = (drive \/ drive_ok)
         /\ storage_initialized' = TRUE

(* #[init] initialize.  It runs at process start, when no request is        *)
(* suspended.                                                               *)
initialize(drive_ok) ==
    /\ req = Idle
    /\ IF admin_key = EmptyString
       THEN /\ admin_key' = KeyString(Admin, key_serial + 1)
            /\ key_serial' = key_serial + 1
            /\ api_keys' = Append(api_keys,
                   ApiKey(KeyString(Admin, key_serial + 1), Admin, clock,
                          "Initial Admin Key"))
            /\ clock' = clock + 1
       ELSE UNCHANGED <<admin_key, key_serial, api_keys, clock>>
    /\ ensure_storage_initialized(drive_ok)
    /\ started' = TRUE
    /\ last' = Returned("initialize", Ok(<<>>))
    /\ UNCHANGED <<providers, default_tts_provider, default_stt_provider,
                   vfs, pair_serial, req, saved, second_admin, retrieved>>

Rejected_clearing_defaults(op, e) ==
    /\ last' = Returned(op, Err(e))
    /\ providers' = ClearDefaultStt(ClearDefaultTts(providers))
    /\ UNCHANGED <<api_keys, default_tts_provider,
                   default_stt_provider, admin_key, storage_initialized,
                   started, drive, vfs, clock, key_serial, pair_serial, req, saved,
                   second_admin, retrieved>>

Rejected(op, e) ==
    /\ last' = Returned(op, Err(e))
    /\ UNCHANGED <<providers, api_keys, default_tts_provider,
                   default_stt_provider, admin_key, storage_initialized,
                   started, drive, vfs, clock, key_serial, pair_serial, req, saved,
                   second_admin, retrieved>>

add_provider(api_key, config) ==
    /\ started
    /\ LET auth == validate_api_key(api_keys, api_key, TRUE)
           kept == RetainOthers(providers, config.provider)
           tts == IF config.is_default_tts THEN ClearDefaultTts(kept) ELSE kept
           stt == IF config.is_default_stt THEN ClearDefaultStt(tts) ELSE tts
       IN  IF ~auth.ok THEN Rejected("add_provider", auth.err)
           ELSE /\ providers' = Append(stt, config)
                /\ default_tts_provider' =
                       IF config.is_default_tts THEN Some(config.provider)
                       ELSE default_tts_provider
                /\ default_stt_provider' =
                       IF config.is_default_stt THEN Some(config.provider)
                       ELSE default_stt_provider
                /\ last' = Returned("add_provider", Ok("Provider added successfully"))
                /\ UNCHANGED <<api_keys, admin_key, storage_initialized,
                               started, drive, vfs, clock, key_serial, pair_serial, req,
                               saved, second_admin, retrieved>>

remove_provider_keeping_defaults(api_key, provider) ==
    /\ started
    /\ LET auth == validate_api_key(api_keys, api_key, TRUE)
       IN  IF ~auth.ok THEN Rejected("remove_provider", auth.err)
           ELSE /\ providers' = RetainOthers(providers, provider)
                /\ last' = Returned("remove_provider", Ok("Provider removed successfully"))
                /\ UNCHANGED <<api_keys, default_tts_provider,
                               default_stt_provider, admin_key,
                               storage_initialized, started, drive, vfs, clock,
                               key_serial, pair_serial, req, saved, second_admin,
                               retrieved>>

remove_provider(api_key, provider) ==
    /\ started
    /\ LET auth == validate_api_key(api_keys, api_key, TRUE)
       IN  IF ~auth.ok THEN Rejected("remove_provider", auth.err)
           ELSE /\ providers' = RetainOthers(providers, provider)
                /\ default_tts_provider' =
                       IF default_tts_provider = Some(provider) THEN None
                       ELSE default_tts_provider
                /\ default_stt_provider' =
                       IF default_stt_provider = Some(provider) THEN None
                       ELSE default_stt_provider
                /\ last' = Returned("remove_provider", Ok("Provider removed successfully"))
                /\ UNCHANGED <<api_keys, admin_key, storage_initialized,
                               started, drive, vfs, clock, key_serial, pair_serial, req,
                               saved, second_admin, retrieved>>

get_providers_admin_only(caller) ==
    /\ started
    /\ LET auth == validate_api_key(api_keys, caller, TRUE)
       IN  last' = Returned("get_providers",
                   IF auth.ok
                   THEN Ok([i \in DOMAIN providers |-> ProviderInfo(providers[i])])
                   ELSE auth)
    /\ UNCHANGED <<providers, api_keys, default_tts_provider,
                   default_stt_provider, admin_key, storage_initialized,
                   started, drive, vfs, clock, key_serial, pair_serial, req,
                   saved, second_admin, retrieved>>

(* get_providers takes no request; caller is the key the caller holds,      *)
(* which the handler never sees.                                            *)
get_providers(caller) ==
    /\ started
    /\ last' = Returned("get_providers",
                        Ok([i \in DOMAIN providers |-> ProviderInfo(providers[i])]))
    /\ UNCHANGED <<providers, api_keys, default_tts_provider,
                   default_stt_provider, admin_key, storage_initialized,
                   started, drive, vfs, clock, key_serial, pair_serial, req, saved,
                   second_admin, retrieved>>

set_default_provider_unchecked(api_key, provider, provider_type) ==
    /\ started
    /\ LET auth == validate_api_key(api_keys, api_key, TRUE)
       IN  IF ~auth.ok THEN Rejected("set_default_provider", auth.err)
           ELSE IF provider_type = "tts"
                THEN /\ providers' = MarkDefaultTts(providers, provider)
                     /\ default_tts_provider' = Some(provider)
                     /\ last' = Returned("set_default_provider",
                                         Ok("Default provider set successfully"))
                     /\ UNCHANGED <<api_keys, default_stt_provider, admin_key,
                                    storage_initialized, started, drive, vfs,
                                    clock, key_serial, pair_serial, req, saved,
                                    second_admin, retrieved>>
           ELSE IF provider_type = "stt"
                THEN /\ providers' = MarkDefaultStt(providers, provider)
                     /\ default_stt_provider' = Some(provider)
                     /\ last' = Returned("set_default_provider",
                                         Ok("Default provider set successfully"))
                     /\ UNCHANGED <<api_keys, default_tts_provider, admin_key,
                                    storage_initialized, started, drive, vfs,
                                    clock, key_serial, pair_serial, req, saved,
                                    second_admin, retrieved>>
           ELSE Rejected("set_default_provider",
                         "Invalid type: must be 'tts' or 'stt'")

set_default_provider(api_key, provider, provider_type) ==
    /\ started
    /\ LET auth == validate_api_key(api_keys, api_key, TRUE)
           exists == \E i \in DOMAIN providers : providers[i].provider = provider
       IN  IF ~auth.ok THEN Rejected("set_default_provider", auth.err)
           ELSE IF ~exists
                THEN Rejected("set_default_provider", "Provider not configured")
           ELSE IF provider_type = "tts"
                THEN /\ providers' = MarkDefaultTts(providers, provider)
                     /\ default_tts_provider' = Some(provider)
                     /\ last' = Returned("set_default_provider",
                                         Ok("Default provider set successfully"))
                     /\ UNCHANGED <<api_keys, default_stt_provider, admin_key,
                                    storage_initialized, started, drive, vfs,
                                    clock, key_serial, pair_serial, req, saved,
                                    second_admin, retrieved>>
           ELSE IF provider_type = "stt"
                THEN /\ providers' = MarkDefaultStt(providers, provider)
                     /\ default_stt_provider' = Some(provider)
                     /\ last' = Returned("set_default_provider",
                                         Ok("Default provider set successfully"))
                     /\ UNCHANGED <<api_keys, default_tts_provider, admin_key,
                                    storage_initialized, started, drive, vfs,
                                    clock, key_serial, pair_serial, req, saved,
                                    second_admin, retrieved>>
           ELSE Rejected("set_default_provider",
                         "Invalid type: must be 'tts' or 'stt'")

generate_api_key(api_key, name, role) ==
    /\ started
    /\ LET auth == validate_api_key(api_keys, api_key, TRUE)
           new_key == ApiKey(KeyString(role, key_serial + 1), role, clock, name)
       IN  IF ~auth.ok THEN Rejected("generate_api_key", auth.err)
           ELSE /\ api_keys' = Append(api_keys, new_key)
                /\ key_serial' = key_serial + 1
                /\ clock' = clock + 1
                /\ second_admin' = (second_admin \/ role = Admin)
                /\ last' = Returned("generate_api_key",
                       Ok([key |-> new_key.key, name |-> name, role |-> role]))
                /\ UNCHANGED <<providers, default_tts_provider,
                               default_stt_provider, admin_key,
                               storage_initialized, started, drive, vfs,
                               pair_serial, req, saved, retrieved>>

IsInitialAdminKey_never(key_to_revoke, initial) == FALSE

IsInitialAdminKey(key_to_revoke, initial) == key_to_revoke = initial

revoke_api_key(api_key, key_to_revoke) ==
    /\ started
    /\ LET auth == validate_api_key(api_keys, api_key, TRUE)
       IN  IF ~auth.ok THEN Rejected("revoke_api_key", auth.err)
           ELSE IF IsInitialAdminKey(key_to_revoke, admin_key)
                THEN Rejected("revoke_api_key", "Cannot revoke initial admin key")
           ELSE /\ api_keys' = SelectSeq(api_keys, LAMBDA k : k.key # key_to_revoke)
                /\ last' = Returned("revoke_api_key", Ok("API key revoked successfully"))
                /\ UNCHANGED <<providers, default_tts_provider,
                               default_stt_provider, admin_key,
                               storage_initialized, started, drive, vfs, clock,
                               key_serial, pair_serial, req, saved, second_admin, retrieved>>

list_api_keys(api_key) ==
    /\ started
    /\ LET auth == validate_api_key(api_keys, api_key, TRUE)
       IN  IF ~auth.ok THEN Rejected("list_api_keys", auth.err)
           ELSE /\ last' = Returned("list_api_keys",
                       Ok([i \in DOMAIN api_keys |-> ApiKeyInfo(api_keys[i])]))
                /\ UNCHANGED <<providers, api_keys, default_tts_provider,
                               default_stt_provider, admin_key,
                               storage_initialized, started, drive, vfs, clock,
                               key_serial, pair_serial, req, saved, second_admin, retrieved>>

admin_count(keys) == Cardinality({i \in DOMAIN keys : keys[i].role = Admin})

get_admin_key ==
    /\ started
    /\ IF admin_count(api_keys) = 1
       THEN /\ last' = Returned("get_admin_key",
                   Ok([admin_key |-> admin_key,
                       message |-> "Save this key! It will not be shown again."]))
            /\ retrieved' = TRUE
       ELSE /\ last' = Returned("get_admin_key", Err("Admin key already retrieved"))
            /\ UNCHANGED retrieved
    /\ UNCHANGED <<providers, api_keys, default_tts_provider,
                   default_stt_provider, admin_key, storage_initialized,
                   started, drive, vfs, clock, key_serial, pair_serial, req, saved,
                   second_admin>>

-----------------------------------------------------------------------------
(* The pair store.  vfs maps the name of each pair directory of the         *)
(* audio_pairs drive to its files (file name -> content).  A directory name *)
(* is the pair id; ids are numbers and compare as the equal-length uuid     *)
(* strings do.  Every VFS call fails when the drive does not exist and may  *)
(* fail otherwise; a failed call changes nothing.                           *)

AudioTextPair(id, text, audio_data, audio_format, provider, timestamp, kind, meta) ==
    [id |-> id, text |-> text, audio_data |-> audio_data,
     audio_format |-> audio_format, provider |-> provider,
     timestamp |-> timestamp, request_type |-> kind, metadata |-> meta]

(* serde_json::json!({...}) of save_audio_text_pair *)
PairToJson(pair) ==
    [id |-> JStr(pair.id), text |-> JStr(pair.text),
     audio_format |-> JStr(pair.audio_format),
     provider |-> JStr(ProviderToJson(pair.provider)),
     timestamp |-> JStr(pair.timestamp),
     request_type |-> JStr(RequestTypeToJson(pair.request_type)),
     metadata |-> MetadataToJson(pair.metadata)]

JsonGet(doc, field) == IF field \in DOMAIN doc THEN doc[field] ELSE JNull

AudioExt(audio_format) ==
    IF audio_format = "webm" THEN "webm"
    ELSE IF audio_format = "mp3" THEN "mp3"
    ELSE "audio"

AudioFile(ext) ==
    IF ext = "webm" THEN "audio.webm"
    ELSE IF ext = "mp3" THEN "audio.mp3"
    ELSE "audio.audio"

MetadataFile == "metadata.json"

HasFile(fs, dir, file) == dir \in DOMAIN fs /\ file \in DOMAIN fs[dir]

PutFile_in_every_dir(fs, dir, file, content) ==
    [d \in DOMAIN fs |-> (file :> content) @@ fs[d]]

PutFile(fs, dir, file, content) ==
    [fs EXCEPT ![dir] = (file :> content) @@ fs[dir]]

MakeDir(fs, dir) == IF dir \in DOMAIN fs THEN fs ELSE (dir :> <<>>) @@ fs

load_audio_text_pair_by_path(fs, path) ==
    IF ~HasFile(fs, path, MetadataFile) THEN Err("Failed to open metadata file")
    ELSE LET parsed == JsonParse(fs[path][MetadataFile])
         IN  IF ~parsed.ok THEN Err("Failed to parse metadata")
             ELSE LET metadata == parsed.val
                      audio_format == AsStrOr(JsonGet(metadata, "audio_format"), "audio")
                      audio_file == AudioFile(AudioExt(audio_format))
                  IN  IF ~HasFile(fs, path, audio_file)
                      THEN Err("Failed to open audio file")
                      ELSE Ok(AudioTextPair(
                               AsStrOr(JsonGet(metadata, "id"), ""),
                               AsStrOr(JsonGet(metadata, "text"), ""),
                               Base64Encode(fs[path][audio_file]),
                               audio_format,
                               ProviderFromJson(JsonGet(metadata, "provider")),
                               AsStrOr(JsonGet(metadata, "timestamp"), ""),
                               RequestTypeFromJson(JsonGet(metadata, "request_type")),
                               MetadataFromJson(JsonGet(metadata, "metadata"))))

load_audio_text_pair_by_id(fs, id) == load_audio_text_pair_by_path(fs, id)

Max(S) == CHOOSE x \in S : \A y \in S : y <= x

(* pair_dirs.sort_by(|a, b| b.path.cmp(&a.path)) *)
RECURSIVE SortDescending(_)
SortDescending(S) ==
    IF S = {} THEN <<>> ELSE <<Max(S)>> \o SortDescending(S \ {Max(S)})

Skip(s, n) == SubSeq(s, n + 1, Len(s))

Take_one_more(s, n) == SubSeq(s, 1, Min(n + 1, Len(s)))

Take(s, n) == SubSeq(s, 1, Min(n, Len(s)))

Paginate(dirs, limit, offset) == Take(Skip(dirs, offset), limit)

RECURSIVE LoadEach(_, _)
LoadEach(fs, entries) ==
    IF entries = <<>> THEN <<>>
    ELSE LET r == load_audio_text_pair_by_path(fs, Head(entries))
         IN  (IF r.ok THEN <<r.val>> ELSE <<>>) \o LoadEach(fs, Tail(entries))

load_audio_text_pairs_all_or_nothing(has_drive, fs, limit, offset) ==
    LET page == Paginate(SortDescending(DOMAIN fs), limit, offset)
    IN  IF ~has_drive THEN Err("Failed to open storage directory")
        ELSE IF \E i \in DOMAIN page : ~load_audio_text_pair_by_path(fs, page[i]).ok
             THEN Err("Failed to load pair")
             ELSE Ok(LoadEach(fs, page))

load_audio_text_pairs(has_drive, fs, limit, offset) ==
    IF ~has_drive THEN Err("Failed to open storage directory")
    ELSE Ok(LoadEach(fs, Paginate(SortDescending(DOMAIN fs), limit, offset)))

get_history(limit, offset) ==
    /\ started
    /\ last' = Returned("get_history",
                   load_audio_text_pairs(drive, vfs, UnwrapOr(limit, 50),
                                         UnwrapOr(offset, 0)))
    /\ UNCHANGED <<providers, api_keys, default_tts_provider,
                   default_stt_provider, admin_key, storage_initialized,
                   started, drive, vfs, clock, key_serial, pair_serial, req,
                   saved, second_admin, retrieved>>

get_audio_text_pair(id) ==
    /\ started
    /\ last' = Returned("get_audio_text_pair", load_audio_text_pair_by_id(vfs, id))
    /\ UNCHANGED <<providers, api_keys, default_tts_provider,
                   default_stt_provider, admin_key, storage_initialized,
                   started, drive, vfs, clock, key_serial, pair_serial, req,
                   saved, second_admin, retrieved>>

-----------------------------------------------------------------------------
(* tts and stt.  A request is suspended at the provider call and at each    *)
(* VFS call of save_audio_text_pair; req holds what the handler still uses: *)
(* the request, the provider whose match arm was taken and the call made.   *)

TtsReq(text, provider, voice, model, format, speed, api_key) ==
    [text |-> text, provider |-> provider, voice |-> voice, model |-> model,
     format |-> format, speed |-> speed, api_key |-> api_key]

SttReq(audio_data, provider, model, language, api_key) ==
    [audio_data |-> audio_data, provider |-> provider, model |-> model,
     language |-> language, api_key |-> api_key]

OpenAIVoices == {"alloy", "ash", "ballad", "coral", "echo", "fable", "onyx",
                 "nova", "sage", "shimmer", "verse"}

OpenAIVoice(voice_str) == IF voice_str \in OpenAIVoices THEN voice_str ELSE "nova"

OpenAITtsModel(model) ==
    IF model \in {Some("tts-1"), Some("tts-1-hd"), Some("gpt-4o-mini-tts")}
    THEN model[1] ELSE "gpt-4o-mini-tts"

OpenAIAudioFormat(format) ==
    IF format \in {Some("mp3"), Some("opus"), Some("aac"), Some("flac"),
                   Some("wav"), Some("pcm")}
    THEN format[1] ELSE "mp3"

OpenAISttModel(model) ==
    IF model \in {Some("whisper-1"), Some("gpt-4o-transcribe"),
                  Some("gpt-4o-mini-transcribe")}
    THEN model[1] ELSE "whisper-1"

(* speeds are in tenths: 15 is 1.5 *)
DefaultSpeed == 15

(* the SpeechClient request handle_openai_tts builds *)
TtsCall(request, config) ==
    [api_key |-> config.api_key,
     model |-> OpenAITtsModel(request.model),
     voice |-> OpenAIVoice(UnwrapOr(OrElse(request.voice, config.default_voice), "nova")),
     input |-> request.text,
     response_format |-> OpenAIAudioFormat(request.format),
     speed |-> UnwrapOr(OrElse(request.speed, config.default_speed), DefaultSpeed)]

(* the TranscriptionClient request handle_openai_stt builds *)
SttCall(request, config, audio) ==
    [api_key |-> config.api_key, file |-> audio, filename |-> "audio.webm",
     model |-> OpenAISttModel(request.model), language |-> request.language]

TtsRes(bytes, request) ==
    [audio_data |-> Base64Encode(bytes),
     format |-> UnwrapOr(request.format, "mp3"),
     provider |-> OpenAI]

SttRes(text) == [text |-> text, provider |-> OpenAI]

OptionalAuth_requiring_admin(keys, api_key) ==
    IF IsSome(api_key) THEN validate_api_key(keys, api_key, TRUE) ELSE Ok(<<>>)

OptionalAuth(keys, api_key) ==
    IF IsSome(api_key) THEN validate_api_key(keys, api_key, FALSE) ELSE Ok(<<>>)

tts(request) ==
    /\ started
    /\ req = Idle
    /\ LET auth == OptionalAuth(api_keys, request.api_key)
           provider == OrElse(request.provider, default_tts_provider)
           config == get_provider_config(providers, OpenAI)
       IN  IF ~auth.ok THEN Rejected("tts", auth.err)
           ELSE IF ~IsSome(provider)
                THEN Rejected("tts", "No provider specified and no default configured")
           ELSE IF ~config.ok THEN Rejected("tts", config.err)
           ELSE /\ req' = [pc |-> "tts_call", op |-> "tts", request |-> request,
                           provider |-> provider[1],
                           call |-> TtsCall(request, config.val)]
                /\ UNCHANGED <<providers, api_keys, default_tts_provider,
                               default_stt_provider, admin_key,
                               storage_initialized, started, drive, vfs, clock,
                               key_serial, pair_serial, last, saved,
                               second_admin, retrieved>>

stt(request) ==
    /\ started
    /\ req = Idle
    /\ LET auth == OptionalAuth(api_keys, request.api_key)
           provider == OrElse(request.provider, default_stt_provider)
           config == get_provider_config(providers, OpenAI)
           audio == Base64Decode(request.audio_data)
       IN  IF ~auth.ok THEN Rejected("stt", auth.err)
           ELSE IF ~IsSome(provider)
                THEN Rejected("stt", "No provider specified and no default configured")
           ELSE IF ~config.ok THEN Rejected("stt", config.err)
           ELSE IF ~audio.ok THEN Rejected("stt", "Failed to decode audio data")
           ELSE /\ req' = [pc |-> "stt_call", op |-> "stt", request |-> request,
                           provider |-> provider[1],
                           call |-> SttCall(request, config.val, audio.val)]
                /\ UNCHANGED <<providers, api_keys, default_tts_provider,
                               default_stt_provider, admin_key,
                               storage_initialized, started, drive, vfs, clock,
                               key_serial, pair_serial, last, saved,
                               second_admin, retrieved>>

(* test_tts and test_stt call tts and stt with a request of their own *)
test_tts(text) ==
    tts(TtsReq(text, default_tts_provider, Some("nova"),
               Some("gpt-4o-mini-tts"), Some("mp3"), Some(15), None))

test_stt(audio_data) ==
    stt(SttReq(audio_data, default_stt_provider, None, None, None))

(* the handler returns while suspended: the request ends *)
Respond(result) ==
    /\ last' = Returned(req.op, result)
    /\ req' = Idle

(* the handler goes on to save the pair it built *)
StartSave(pair, response) ==
    /\ req' = [pc |-> "open_dir", op |-> req.op, pair |-> pair,
               response |-> response]
    /\ pair_serial' = pair_serial + 1
    /\ clock' = clock + 1
    /\ UNCHANGED last

(* builder.execute().await of handle_openai_tts returns; id is the value of *)
(* Uuid::new_v4(), drawn once the call has succeeded                        *)
tts_provider_returns(outcome, id) ==
    /\ req.pc = "tts_call"
    /\ IF ~outcome.ok
       THEN /\ Respond(Err("OpenAI TTS error"))
            /\ UNCHANGED <<pair_serial, clock>>
       ELSE /\ id \notin DOMAIN vfs
            /\ LET response == TtsRes(outcome.val, req.request)
               IN  StartSave(AudioTextPair(id, req.request.text,
                                           response.audio_data, response.format,
                                           response.provider, clock, TTS, <<>>),
                             response)
    /\ UNCHANGED <<providers, api_keys, default_tts_provider,
                   default_stt_provider, admin_key, storage_initialized,
                   started, drive, vfs, key_serial, saved, second_admin,
                   retrieved>>

stt_provider_returns(outcome, id) ==
    /\ req.pc = "stt_call"
    /\ IF ~outcome.ok
       THEN /\ Respond(Err("OpenAI STT error"))
            /\ UNCHANGED <<pair_serial, clock>>
       ELSE /\ id \notin DOMAIN vfs
            /\ LET response == SttRes(outcome.val)
               IN  StartSave(AudioTextPair(id, response.text,
                                           req.request.audio_data, "webm",
                                           response.provider, clock, STT, <<>>),
                             response)
    /\ UNCHANGED <<providers, api_keys, default_tts_provider,
                   default_stt_provider, admin_key, storage_initialized,
                   started, drive, vfs, key_serial, saved, second_admin,
                   retrieved>>

-----------------------------------------------------------------------------
(* save_audio_text_pair, one action per VFS call.  tts and stt log an Err   *)
(* of the save and return Ok(response) either way.                          *)

SaveReturns_surfacing_error(result) ==
    /\ last' = Returned(req.op, IF result.ok /\ req.op # "save"
                                THEN Ok(req.response) ELSE result)
    /\ req' = Idle
    /\ saved' = IF result.ok THEN Append(saved, req.pair) ELSE saved

SaveReturns(result) ==
    /\ last' = Returned(req.op, IF req.op = "save" THEN result ELSE Ok(req.response))
    /\ req' = Idle
    /\ saved' = IF result.ok THEN Append(saved, req.pair) ELSE saved

SaveGoesOn(pc) ==
    /\ req' = [req EXCEPT !.pc = pc]
    /\ UNCHANGED <<last, saved>>

SaveFrame_dropping_provider ==
    /\ providers' = RetainOthers(providers, req.pair.provider)
    /\ UNCHANGED <<api_keys, default_tts_provider,
                   default_stt_provider, admin_key, storage_initialized,
                   started, drive, clock, key_serial, pair_serial, second_admin,
                   retrieved>>

SaveFrame ==
    UNCHANGED <<providers, api_keys, default_tts_provider,
                default_stt_provider, admin_key, storage_initialized,
                started, drive, clock, key_serial, pair_serial, second_admin,
                retrieved>>

(* the Pair Store's save(pair), called on its own *)
save_audio_text_pair(pair) ==
    /\ started
    /\ req = Idle
    /\ req' = [pc |-> "open_dir", op |-> "save", pair |-> pair, response |-> <<>>]
    /\ pair_serial' = pair_serial + 1
    /\ UNCHANGED <<providers, api_keys, default_tts_provider,
                   default_stt_provider, admin_key, storage_initialized,
                   started, drive, vfs, clock, key_serial, last, saved,
                   second_admin, retrieved>>

(* open_dir_async(&base_path, true, Some(5)) *)
save_open_dir(io_ok) ==
    /\ req.pc = "open_dir"
    /\ io_ok => drive
    /\ IF io_ok
       THEN vfs' = MakeDir(vfs, req.pair.id) /\ SaveGoesOn("create_metadata")
       ELSE UNCHANGED vfs /\ SaveReturns(Err("Failed to create pair directory"))
    /\ SaveFrame

(* create_file_async(&metadata_path, Some(5)) *)
save_create_metadata(io_ok) ==
    /\ req.pc = "create_metadata"
    /\ IF io_ok
       THEN /\ vfs' = PutFile(vfs, req.pair.id, MetadataFile, EmptyFile)
            /\ SaveGoesOn("write_metadata")
       ELSE UNCHANGED vfs /\ SaveReturns(Err("Failed to create metadata file"))
    /\ SaveFrame

(* metadata_file.write(metadata.to_string().as_bytes()) *)
save_write_metadata(io_ok) ==
    /\ req.pc = "write_metadata"
    /\ IF io_ok
       THEN /\ vfs' = PutFile(vfs, req.pair.id, MetadataFile,
                              JsonText(PairToJson(req.pair)))
            /\ SaveGoesOn("create_audio")
       ELSE UNCHANGED vfs /\ SaveReturns(Err("Failed to write metadata"))
    /\ SaveFrame

(* create_file_async(&audio_path, Some(5)), then BASE64.decode *)
save_create_audio(io_ok) ==
    /\ req.pc = "create_audio"
    /\ IF ~io_ok
       THEN UNCHANGED vfs /\ SaveReturns(Err("Failed to create audio file"))
       ELSE /\ vfs' = PutFile(vfs, req.pair.id,
                              AudioFile(AudioExt(req.pair.audio_format)), EmptyFile)
            /\ IF Base64Decode(req.pair.audio_data).ok
               THEN SaveGoesOn("write_audio")
               ELSE SaveReturns(Err("Failed to decode audio data"))
    /\ SaveFrame

(* audio_file.write(&audio_bytes) *)
save_write_audio(io_ok) ==
    /\ req.pc = "write_audio"
    /\ IF io_ok
       THEN /\ vfs' = PutFile(vfs, req.pair.id,
                              AudioFile(AudioExt(req.pair.audio_format)),
                              Base64Decode(req.pair.audio_data).val)
            /\ SaveReturns(Ok(<<>>))
       ELSE UNCHANGED vfs /\ SaveReturns(Err("Failed to write audio"))
    /\ SaveFrame

-----------------------------------------------------------------------------
(* Inputs common to the specifications.                                     *)

InitialAdminKey == KeyString(Admin, 1)

NotAKey == <<"not-a-key">>

Config(t, s, v) == ProviderConfig(OpenAI, "sk-1", t, s, v, None)

ProviderTypeInputs == {"tts", "stt", "both"}

AudioA == <<77>>

AudioB == <<104, 105, 33, 0>>

TtsOutcomes == {Err("timeout"), Ok(AudioA)}

SttOutcomes == {Err("timeout"), Ok("hello")}

-----------------------------------------------------------------------------
(* Spec: every handler of the process, one persisted pair.                  *)

MaxKeys == 1

MaxPairs == 1

MaxIds == 1

Ids == 1..MaxIds

KeyInputs ==
    {None, Some(InitialAdminKey)}
        \cup {Some(KeyString(r, n)) : r \in ApiKeyRole, n \in 2..(MaxKeys + 1)}

ConfigInputs == {Config(t, s, None) : t \in BOOLEAN, s \in BOOLEAN}

TtsInputs ==
    {TtsReq("hi", p, None, None, f, None, None) :
        p \in {None, Some(OpenAI)}, f \in {None, Some("wav")}}

SttInputs ==
    {SttReq(Base64Encode(AudioB), p, None, None, None) : p \in {None, Some(OpenAI)}}

PageInputs == {<<None, None>>, <<Some(1), Some(0)>>, <<Some(1), Some(1)>>}

Next ==
    \/ \E drive_ok \in BOOLEAN : initialize(drive_ok)
    \/ \E k \in KeyInputs, c \in ConfigInputs : add_provider(k, c)
    \/ \E k \in KeyInputs, p \in Provider : remove_provider(k, p)
    \/ \E k \in KeyInputs : get_providers(k)
    \/ \E k \in KeyInputs, p \in Provider, t \in ProviderTypeInputs :
           set_default_provider(k, p, t)
    \/ \E k \in KeyInputs, r \in ApiKeyRole :
           key_serial <= MaxKeys /\ generate_api_key(k, "ci", r)
    \/ \E k \in KeyInputs, x \in {k2[1] : k2 \in KeyInputs \ {None}} :
           revoke_api_key(k, x)
    \/ \E k \in KeyInputs : list_api_keys(k)
    \/ get_admin_key
    \/ \E r \in TtsInputs : pair_serial < MaxPairs /\ tts(r)
    \/ \E r \in SttInputs : pair_serial < MaxPairs /\ stt(r)
    \/ pair_serial < MaxPairs /\ test_tts("hi")
    \/ pair_serial < MaxPairs /\ test_stt(Base64Encode(AudioB))
    \/ \E o \in TtsOutcomes, id \in Ids : tts_provider_returns(o, id)
    \/ \E o \in SttOutcomes, id \in Ids : stt_provider_returns(o, id)
    \/ \E io_ok \in BOOLEAN : save_open_dir(io_ok)
    \/ \E io_ok \in BOOLEAN : save_create_metadata(io_ok)
    \/ \E io_ok \in BOOLEAN : save_write_metadata(io_ok)
    \/ \E io_ok \in BOOLEAN : save_create_audio(io_ok)
    \/ \E io_ok \in BOOLEAN : save_write_audio(io_ok)
    \/ \E lo \in PageInputs : get_history(lo[1], lo[2])
    \/ \E id \in Ids : get_audio_text_pair(id)

Spec == Init /\ [][Next]_vars

-----------------------------------------------------------------------------
(* SpecStore: the Pair Store on its own: save(pair) for a range of pairs,   *)
(* every outcome of each VFS call, load_by_id and load_page.                *)

StoreMaxPairs == 2

StoreMaxIds == 2

StoreMaxLimit == 1

StoreIds == 1..StoreMaxIds

Meta1 == <<<<"lang", "en">>>>

Meta2 == <<<<"voice", "nova">>, <<"lang", "en">>>>

PairInputs ==
    {AudioTextPair(id, "hi", Base64Encode(AudioA), "mp3", OpenAI, clock, TTS, <<>>) :
        id \in StoreIds}
    \cup {AudioTextPair(id, "hello", Base64Encode(AudioB), "webm", OpenAI, clock, STT, Meta2) :
        id \in StoreIds}
    \cup {AudioTextPair(id, "hi", Base64Encode(AudioA), "wav", OpenAI, clock, TTS, Meta1) :
        id \in StoreIds}

StorePageInputs ==
    {<<None, None>>} \cup
    UNION {{<<Some(k), Some(0)>>, <<Some(k), Some(k)>>} : k \in 0..(2 * StoreMaxLimit)}

NextStore ==
    \/ \E drive_ok \in BOOLEAN : initialize(drive_ok)
    \/ \E pair \in PairInputs :
           /\ pair_serial < StoreMaxPairs
           /\ pair.id \notin DOMAIN vfs
           /\ save_audio_text_pair(pair)
    \/ \E io_ok \in BOOLEAN : save_open_dir(io_ok)
    \/ \E io_ok \in BOOLEAN : save_create_metadata(io_ok)
    \/ \E io_ok \in BOOLEAN : save_write_metadata(io_ok)
    \/ \E io_ok \in BOOLEAN : save_create_audio(io_ok)
    \/ \E io_ok \in BOOLEAN : save_write_audio(io_ok)
    \/ \E lo \in StorePageInputs : get_history(lo[1], lo[2])
    \/ \E id \in StoreIds : get_audio_text_pair(id)

SpecStore == Init /\ [][NextStore]_vars

-----------------------------------------------------------------------------
(* SpecFrame: two tts/stt requests among the operations that change the     *)
(* registry and the keys, called by the administrator.                      *)

FrameMaxPairs == 2

FrameMaxIds == 2

FrameIds == 1..FrameMaxIds

FrameKey == Some(InitialAdminKey)

NextFrame ==
    \/ initialize(TRUE)
    \/ \E c \in ConfigInputs : add_provider(FrameKey, c)
    \/ remove_provider(FrameKey, OpenAI)
    \/ \E t \in {"tts", "stt"} : set_default_provider(FrameKey, OpenAI, t)
    \/ key_serial <= 1 /\ generate_api_key(FrameKey, "ci", Requestor)
    \/ revoke_api_key(FrameKey, KeyString(Requestor, 2))
    \/ \E f \in {None, Some("wav")} :
           /\ pair_serial < FrameMaxPairs
           /\ tts(TtsReq("hi", None, None, None, f, None, None))
    \/ /\ pair_serial < FrameMaxPairs
       /\ stt(SttReq(Base64Encode(AudioB), None, None, None, None))
    \/ \E o \in TtsOutcomes, id \in FrameIds : tts_provider_returns(o, id)
    \/ \E o \in SttOutcomes, id \in FrameIds : stt_provider_returns(o, id)
    \/ \E io_ok \in BOOLEAN : save_open_dir(io_ok)
    \/ \E io_ok \in BOOLEAN : save_create_metadata(io_ok)
    \/ \E io_ok \in BOOLEAN : save_write_metadata(io_ok)
    \/ \E io_ok \in BOOLEAN : save_create_audio(io_ok)
    \/ \E io_ok \in BOOLEAN : save_write_audio(io_ok)
    \/ \E id \in FrameIds : get_audio_text_pair(id)
    \/ get_history(None, None)

SpecFrame == Init /\ [][NextFrame]_vars

-----------------------------------------------------------------------------
(* SpecRegistry: the provider registry and the API keys on their own, over  *)
(* every combination of caller key, role and provider configuration.        *)

RegMaxKeys == 1

RegKeyInputs ==
    {None, Some(NotAKey), Some(InitialAdminKey)}
        \cup {Some(KeyString(r, n)) : r \in ApiKeyRole, n \in 2..(RegMaxKeys + 1)}

RegConfigInputs ==
    {ProviderConfig(OpenAI, "sk-1", t, s, None, None) : t \in BOOLEAN, s \in BOOLEAN}
    \cup {ProviderConfig(OpenAI, "sk-2", t, s, Some("alloy"), Some(10)) :
              t \in BOOLEAN, s \in BOOLEAN}

NextRegistry ==
    \/ \E drive_ok \in BOOLEAN : initialize(drive_ok)
    \/ \E k \in RegKeyInputs, c \in RegConfigInputs : add_provider(k, c)
    \/ \E k \in RegKeyInputs, p \in Provider : remove_provider(k, p)
    \/ \E k \in RegKeyInputs : get_providers(k)
    \/ \E k \in RegKeyInputs, p \in Provider, t \in ProviderTypeInputs :
           set_default_provider(k, p, t)
    \/ \E k \in RegKeyInputs, r \in ApiKeyRole :
           key_serial <= RegMaxKeys /\ generate_api_key(k, "ci", r)
    \/ \E k \in RegKeyInputs, x \in {k2[1] : k2 \in RegKeyInputs \ {None}} :
           revoke_api_key(k, x)
    \/ \E k \in RegKeyInputs : list_api_keys(k)
    \/ get_admin_key

SpecRegistry == Init /\ [][NextRegistry]_vars

-----------------------------------------------------------------------------
(* SpecRequest: tts, stt, test_tts and test_stt with every outcome of the   *)
(* provider call and of each VFS call of the save, while the administrator  *)
(* changes the registry.  ReqMaxPairs bounds the provider calls that        *)
(* succeed; requests go on being made, and refused or failed, after that.   *)

ReqMaxPairs == 1

ReqIds == 1..ReqMaxPairs

ReqKeyInputs == {None, Some(NotAKey), Some(InitialAdminKey)}

NotBase64 == <<0, 1, 2>>

ReqTtsInputs ==
    {TtsReq("hi", p, None, None, None, None, k) :
        p \in {None, Some(OpenAI)}, k \in ReqKeyInputs}

ReqSttInputs ==
    {SttReq(a, p, None, None, k) :
        a \in {Base64Encode(AudioB), NotBase64},
        p \in {None, Some(OpenAI)}, k \in ReqKeyInputs}

NextRequest ==
    \/ \E drive_ok \in BOOLEAN : initialize(drive_ok)
    \/ \E c \in ConfigInputs : add_provider(FrameKey, c)
    \/ remove_provider(FrameKey, OpenAI)
    \/ \E t \in {"tts", "stt"} : set_default_provider(FrameKey, OpenAI, t)
    \/ \E r \in ReqTtsInputs : tts(r)
    \/ \E r \in ReqSttInputs : stt(r)
    \/ test_tts("hi")
    \/ test_stt(Base64Encode(AudioB))
    \/ \E o \in TtsOutcomes, id \in ReqIds :
           (o.ok => pair_serial < ReqMaxPairs) /\ tts_provider_returns(o, id)
    \/ \E o \in SttOutcomes, id \in ReqIds :
           (o.ok => pair_serial < ReqMaxPairs) /\ stt_provider_returns(o, id)
    \/ \E io_ok \in BOOLEAN : save_open_dir(io_ok)
    \/ \E io_ok \in BOOLEAN : save_create_metadata(io_ok)
    \/ \E io_ok \in BOOLEAN : save_write_metadata(io_ok)
    \/ \E io_ok \in BOOLEAN : save_create_audio(io_ok)
    \/ \E io_ok \in BOOLEAN : save_write_audio(io_ok)

SpecRequest == Init /\ [][NextRequest]_vars

-----------------------------------------------------------------------------
(* SpecEntry: the entry of tts and stt (key check, provider resolution,     *)
(* registry lookup) for every kind of caller key, before a Requestor key is *)
(* generated, while it is stored and after it is revoked, and for every     *)
(* state of the registry.  The drive exists and its VFS calls succeed.      *)

EntryMaxPairs == 1

EntryIds == 1..EntryMaxPairs

EntryKeyInputs ==
    {None, Some(NotAKey), Some(InitialAdminKey), Some(KeyString(Requestor, 2))}

(* the tts and stt requests of caller key k that name provider p *)
TtsOf(p, k) == TtsReq("hi", p, None, None, None, None, k)

SttOf(p, k) == SttReq(Base64Encode(AudioB), p, None, None, k)

NextEntry ==
    \/ initialize(TRUE)
    \/ \E c \in ConfigInputs : add_provider(FrameKey, c)
    \/ remove_provider(FrameKey, OpenAI)
    \/ \E t \in {"tts", "stt"} : set_default_provider(FrameKey, OpenAI, t)
    \/ key_serial <= 1 /\ generate_api_key(FrameKey, "ci", Requestor)
    \/ revoke_api_key(FrameKey, KeyString(Requestor, 2))
    \/ \E p \in {None, Some(OpenAI)}, k \in EntryKeyInputs : tts(TtsOf(p, k))
    \/ \E p \in {None, Some(OpenAI)}, k \in EntryKeyInputs : stt(SttOf(p, k))
    \/ test_tts("hi")
    \/ test_stt(Base64Encode(AudioB))
    \/ \E o \in TtsOutcomes, id \in EntryIds :
           (o.ok => pair_serial < EntryMaxPairs) /\ tts_provider_returns(o, id)
    \/ \E o \in SttOutcomes, id \in EntryIds :
           (o.ok => pair_serial < EntryMaxPairs) /\ stt_provider_returns(o, id)
    \/ save_open_dir(TRUE)
    \/ save_create_metadata(TRUE)
    \/ save_write_metadata(TRUE)
    \/ save_create_audio(TRUE)
    \/ save_write_audio(TRUE)

SpecEntry == Init /\ [][NextEntry]_vars

-----------------------------------------------------------------------------
(* SpecFormat: tts requests over the formats a caller can ask for: none,    *)
(* each format the provider offers, and strings it does not offer.  The     *)
(* drive exists and its VFS calls succeed.                                  *)

FormatMaxPairs == 1

FormatIds == 1..FormatMaxPairs

OfferedFormats == {"mp3", "opus", "aac", "flac", "wav", "pcm"}

FormatInputs == {None} \cup {Some(f) : f \in OfferedFormats \cup {"ogg", "MP3"}}

NextFormat ==
    \/ initialize(TRUE)
    \/ \E c \in ConfigInputs : add_provider(FrameKey, c)
    \/ \E f \in FormatInputs, p \in {None, Some(OpenAI)} :
           tts(TtsReq("hi", p, None, None, f, None, None))
    \/ test_tts("hi")
    \/ \E o \in TtsOutcomes, id \in FormatIds :
           (o.ok => pair_serial < FormatMaxPairs) /\ tts_provider_returns(o, id)
    \/ save_open_dir(TRUE)
    \/ save_create_metadata(TRUE)
    \/ save_write_metadata(TRUE)
    \/ save_create_audio(TRUE)
    \/ save_write_audio(TRUE)
    \/ \E id \in FormatIds : get_audio_text_pair(id)

SpecFormat == Init /\ [][NextFormat]_vars

-----------------------------------------------------------------------------
(* Properties.                                                              *)

StoredAdmin(keys, api_key) ==
    /\ IsSome(api_key)
    /\ \E i \in DOMAIN keys : keys[i].key = api_key[1] /\ keys[i].role = Admin

DefaultTtsEntries == {i \in DOMAIN providers : providers[i].is_default_tts}

DefaultSttEntries == {i \in DOMAIN providers : providers[i].is_default_stt}

(* C1: after any sequence of add_provider, remove_provider and              *)
(* set_default_provider calls, successful or not, at most one registry      *)
(* entry has is_default_tts and at most one has is_default_stt.             *)
C1_SingleDefaultPerKind ==
    /\ Cardinality(DefaultTtsEntries) <= 1
    /\ Cardinality(DefaultSttEntries) <= 1

(* C1 witness: set_default_provider has just moved the TTS default onto an  *)
(* entry that was added without it, and the entry is the only default.      *)
C1_Witness ==
    /\ last.op = "set_default_provider"
    /\ last.ok
    /\ Cardinality(DefaultTtsEntries) = 1
    /\ Cardinality(DefaultSttEntries) = 0
    /\ default_stt_provider = Some(OpenAI)

RegistryAndKeysUnchanged ==
    UNCHANGED <<providers, default_tts_provider, default_stt_provider, api_keys>>

(* a step of a gated operation called with api_key *)
GatedCall(api_key) ==
    \/ last'.op = "add_provider" /\ \E c \in RegConfigInputs : add_provider(api_key, c)
    \/ last'.op = "remove_provider" /\ remove_provider(api_key, OpenAI)
    \/ /\ last'.op = "set_default_provider"
       /\ \E t \in ProviderTypeInputs : set_default_provider(api_key, OpenAI, t)
    \/ /\ last'.op = "generate_api_key"
       /\ \E r \in ApiKeyRole : generate_api_key(api_key, "ci", r)
    \/ /\ last'.op = "revoke_api_key"
       /\ \E x \in {k[1] : k \in RegKeyInputs \ {None}} : revoke_api_key(api_key, x)
    \/ last'.op = "list_api_keys" /\ list_api_keys(api_key)

(* C2: add_provider, remove_provider, set_default_provider,                 *)
(* generate_api_key, revoke_api_key and list_api_keys, called with no key,  *)
(* a key that is not stored or a Requestor key, fail and leave the provider *)
(* entries, the recorded defaults and the keys unchanged; only a stored     *)
(* Admin key lets them proceed.                                             *)
C2_AdminGated ==
    [][\/ ~last'.ok /\ RegistryAndKeysUnchanged
       \/ \A k \in RegKeyInputs : GatedCall(k) => StoredAdmin(api_keys, k)]_vars

(* C2 witness: a stored Requestor key was refused by revoke_api_key.        *)
C2_Witness ==
    /\ last.op = "revoke_api_key"
    /\ ~last.ok
    /\ last.out = "Admin permission required"
    /\ \E i \in DOMAIN api_keys : api_keys[i].role = Requestor

(* C3 as claimed: get_providers succeeds only for a caller that presents a  *)
(* stored Admin key and fails for every other caller.                       *)
C3_AdminGated_Claimed ==
    [][\A k \in RegKeyInputs :
          (get_providers(k) /\ ~StoredAdmin(api_keys, k)) => ~last'.ok]_vars

(* C3 amended: get_providers is not gated; for every caller it succeeds,    *)
(* lists every registry entry without its credential and changes neither    *)
(* the registry nor the keys.                                               *)
C3_OpenToEveryCaller ==
    [][\A k \in RegKeyInputs :
          get_providers(k) =>
              /\ last'.ok
              /\ Len(last'.out) = Len(providers)
              /\ \A i \in DOMAIN providers :
                     /\ "api_key" \notin DOMAIN last'.out[i]
                     /\ last'.out[i].provider = providers[i].provider
                     /\ last'.out[i].is_default_tts = providers[i].is_default_tts
                     /\ last'.out[i].is_default_stt = providers[i].is_default_stt
              /\ RegistryAndKeysUnchanged]_vars

(* C3 witness: get_providers has answered with the one registered entry     *)
(* while a Requestor key, the only other key, was stored.                   *)
C3_Witness ==
    /\ last.op = "get_providers"
    /\ last.ok
    /\ Len(last.out) = 1
    /\ \E i \in DOMAIN api_keys : api_keys[i].role = Requestor

InitialAdminKeyStored ==
    /\ admin_key = InitialAdminKey
    /\ \E i \in DOMAIN api_keys :
           api_keys[i].key = admin_key /\ api_keys[i].role = Admin

(* C4: after initialization the initial admin key is always in the key      *)
(* collection with role Admin; revoke_api_key naming it fails and leaves    *)
(* the keys unchanged, and no step replaces it.                             *)
C4_AdminKeyPermanent ==
    /\ [](started => InitialAdminKeyStored)
    /\ [][/\ started => admin_key' = admin_key
          /\ \A k \in KeyInputs :
                 revoke_api_key(k, admin_key) =>
                     ~last'.ok /\ api_keys' = api_keys]_vars

(* C4 witness: an administrator asked to revoke the initial admin key and   *)
(* was refused.                                                             *)
C4_Witness ==
    /\ last.op = "revoke_api_key"
    /\ last.out = "Cannot revoke initial admin key"
    /\ InitialAdminKeyStored

(* C5: once a second Admin key has been generated, every later              *)
(* get_admin_key call fails with AlreadyRetrieved, whatever happened in     *)
(* between.                                                                 *)
C5_NoAdminKeyAfterSecondAdmin ==
    [][(second_admin /\ get_admin_key) =>
           ~last'.ok /\ last'.out = "Admin key already retrieved"]_vars

(* C6: get_admin_key succeeds at most once: after one successful call every *)
(* later call fails with AlreadyRetrieved.                                  *)
C6_AdminKeyShownOnce ==
    [][(retrieved /\ get_admin_key) =>
           ~last'.ok /\ last'.out = "Admin key already retrieved"]_vars

SavedIds == {saved[i].id : i \in DOMAIN saved}

SavedPair(id) == saved[CHOOSE i \in DOMAIN saved : saved[i].id = id]

(* C7: for a pair with a fresh id whose save completed, a following         *)
(* load_by_id of its id succeeds and returns a pair equal to the saved one  *)
(* in id, text, audio bytes, audio_format, provider, request_type,          *)
(* timestamp and metadata, whatever the audio_format.                       *)
C7_SaveLoadRoundTrip ==
    [][\A id \in StoreIds :
          (id \in SavedIds /\ get_audio_text_pair(id)) =>
              /\ last'.ok
              /\ last'.out = SavedPair(id)
              /\ Base64Decode(last'.out.audio_data) =
                     Base64Decode(SavedPair(id).audio_data)]_vars

(* C7 witness: load_by_id has returned a saved pair whose audio_format is   *)
(* "wav" and whose metadata has an entry, after an STT pair with two        *)
(* metadata entries was saved as well.                                      *)
C7_Witness ==
    /\ last.op = "get_audio_text_pair"
    /\ last.ok
    /\ last.out.id \in SavedIds
    /\ last.out.audio_format = "wav"
    /\ last.out.metadata = Meta1
    /\ \E i \in DOMAIN saved :
           saved[i].request_type = STT /\ Len(saved[i].metadata) = 2

(* C8: once the save of a pair has completed, every later load_by_id of its *)
(* id returns that pair, whatever follows: add_provider, remove_provider    *)
(* and set_default_provider on its provider, key operations, and tts/stt    *)
(* requests that save other pairs.                                          *)
C8_PersistedPairImmutable ==
    \A i \in DOMAIN saved :
        load_audio_text_pair_by_id(vfs, saved[i].id) = Ok(saved[i])

(* C8 witness: two pairs are persisted, the provider they name has been     *)
(* removed from the registry and the first pair has just been loaded.       *)
C8_Witness ==
    /\ Len(saved) = 2
    /\ providers = <<>>
    /\ last.op = "get_audio_text_pair"
    /\ last.ok
    /\ last.out = saved[1]

Page(limit, offset) == load_audio_text_pairs(drive, vfs, limit, offset)

PageIds(page) == {page.val[i].id : i \in DOMAIN page.val}

SaveIndex(id) == CHOOSE i \in DOMAIN saved : saved[i].id = id

(* C10: get_history returns pairs in reverse-chronological order: of two    *)
(* pairs in one page, the one saved later comes first.                      *)
C10_PageNewestFirst ==
    (last.op = "get_history" /\ last.ok) =>
        \A i, j \in DOMAIN last.out :
            (i < j /\ last.out[i].id \in SavedIds /\ last.out[j].id \in SavedIds)
                => SaveIndex(last.out[i].id) > SaveIndex(last.out[j].id)

SavePcs ==
    {"open_dir", "create_metadata", "write_metadata", "create_audio", "write_audio"}

(* C11: once the provider call of a tts or stt request has returned         *)
(* successfully, the response built from it is what the request returns,    *)
(* with success, whether the save completes or fails at any of its VFS      *)
(* calls.                                                                   *)
C11_SaveFailureSwallowed ==
    [][/\ \A o \in TtsOutcomes, id \in ReqIds :
              (o.ok /\ tts_provider_returns(o, id)) =>
                  /\ req'.pc = "open_dir"
                  /\ req'.response =
                         [audio_data |-> Base64Encode(o.val),
                          format |-> UnwrapOr(req.request.format, "mp3"),
                          provider |-> OpenAI]
       /\ \A o \in SttOutcomes, id \in ReqIds :
              (o.ok /\ stt_provider_returns(o, id)) =>
                  /\ req'.pc = "open_dir"
                  /\ req'.response = [text |-> o.val, provider |-> OpenAI]
       /\ (req.pc \in SavePcs /\ req.op \in {"tts", "stt"}) =>
              /\ req'.pc \in SavePcs =>
                     req'.op = req.op /\ req'.response = req.response
              /\ req'.pc \notin SavePcs =>
                     /\ req' = Idle
                     /\ last' = [op |-> req.op, ok |-> TRUE, out |-> req.response]]_vars

(* C11 witness: a tts request has returned its response although its save   *)
(* failed after the pair directory and the metadata file were created.      *)
C11_Witness ==
    /\ last.op = "tts"
    /\ last.ok
    /\ last.out.audio_data = Base64Encode(AudioA)
    /\ req = Idle
    /\ saved = <<>>
    /\ \E d \in DOMAIN vfs : DOMAIN vfs[d] = {MetadataFile}

KeyStored(keys, key) == \E i \in DOMAIN keys : keys[i].key = key

Registered(provider) == \E i \in DOMAIN providers : providers[i].provider = provider

(* a step in which tts or stt returns an error to its caller *)
FailedRequest == req' = Idle /\ last'.op \in {"tts", "stt"} /\ ~last'.ok

(* C12: a tts or stt request that fails persists nothing and changes        *)
(* neither the registry nor the keys.  A request checks the key, then       *)
(* resolves the provider, then looks up its entry, then calls the provider, *)
(* and the save starts only when that call has returned successfully: the   *)
(* VFS changes only inside a save.  A request with several faults reports   *)
(* the first one in that order.                                             *)
C12_FailedRequestPersistsNothing ==
    [][/\ FailedRequest =>
              /\ req.pc \in {"idle", "tts_call", "stt_call"}
              /\ UNCHANGED <<vfs, saved, pair_serial>>
              /\ RegistryAndKeysUnchanged
       /\ (req = Idle /\ req' # Idle) =>
              /\ req'.pc \in {"tts_call", "stt_call"}
              /\ req'.request.api_key = None
                     \/ KeyStored(api_keys, req'.request.api_key[1])
              /\ \/ req'.request.provider = Some(req'.provider)
                 \/ req'.pc = "tts_call" /\ default_tts_provider = Some(req'.provider)
                 \/ req'.pc = "stt_call" /\ default_stt_provider = Some(req'.provider)
              /\ Registered(req'.provider)
              /\ UNCHANGED <<vfs, saved, pair_serial, last>>
       /\ (req'.pc \in SavePcs /\ req.pc \notin SavePcs) =>
              /\ req.pc \in {"tts_call", "stt_call"}
              /\ req'.pc = "open_dir"
              /\ pair_serial' = pair_serial + 1
       /\ vfs' # vfs => req.pc \in SavePcs
       /\ saved' # saved => req.pc \in SavePcs
       /\ (req = Idle /\ (req' # Idle \/ last'.op \in {"tts", "stt"})) =>
              /\ \A p \in {None, Some(OpenAI)} :
                     (\/ tts(TtsReq("hi", p, None, None, None, None, Some(NotAKey)))
                      \/ stt(SttReq(NotBase64, p, None, None, Some(NotAKey)))) =>
                         ~last'.ok /\ last'.out = "Invalid API key"
              /\ (\/ default_tts_provider = None
                     /\ tts(TtsReq("hi", None, None, None, None, None, None))
                  \/ default_stt_provider = None
                     /\ stt(SttReq(NotBase64, None, None, None, None))) =>
                     /\ ~last'.ok
                     /\ last'.out = "No provider specified and no default configured"
              /\ (~Registered(OpenAI)
                     /\ \/ tts(TtsReq("hi", Some(OpenAI), None, None, None, None, None))
                        \/ stt(SttReq(NotBase64, Some(OpenAI), None, None, None))) =>
                     ~last'.ok /\ last'.out = NotConfigured(OpenAI)]_vars

(* C12 witness: the provider call of an stt request made with the           *)
(* administrator's key has failed after the provider was removed from the   *)
(* registry; the request returned the error and nothing was persisted.      *)
C12_Witness ==
    /\ last.op = "stt"
    /\ ~last.ok
    /\ last.out = "OpenAI STT error"
    /\ req = Idle
    /\ providers = <<>>
    /\ vfs = <<>>
    /\ pair_serial = 0

NoProviderAvailable == "No provider specified and no default configured"

(* a step that can be the entry of tts (of stt): it suspends the request at *)
(* the provider call or returns an error of that handler                    *)
TtsEntry == req = Idle /\ (req'.pc = "tts_call" \/ (req' = Idle /\ last'.op = "tts"))

SttEntry == req = Idle /\ (req'.pc = "stt_call" \/ (req' = Idle /\ last'.op = "stt"))

(* a provider call is made only for the provider the request names or,      *)
(* when it names none, for the recorded default of the request's own kind   *)
CallsResolvedProvider ==
    (req = Idle /\ req' # Idle) =>
        /\ req'.pc = "tts_call" =>
               Some(req'.provider) =
                   IF req'.request.provider # None THEN req'.request.provider
                   ELSE default_tts_provider
        /\ req'.pc = "stt_call" =>
               Some(req'.provider) =
                   IF req'.request.provider # None THEN req'.request.provider
                   ELSE default_stt_provider

(* a request of caller key k that names no provider fails with              *)
(* NoProviderAvailable, and calls no provider, when no default of its kind  *)
(* is recorded                                                              *)
NoDefaultNoCall(k) ==
    /\ (default_tts_provider = None /\ tts(TtsOf(None, k))) =>
           /\ ~last'.ok
           /\ last'.out = NoProviderAvailable
           /\ req' = Idle
    /\ (default_stt_provider = None /\ stt(SttOf(None, k))) =>
           /\ ~last'.ok
           /\ last'.out = NoProviderAvailable
           /\ req' = Idle

(* C13 as claimed: whatever key the caller presents, a request that names   *)
(* no provider fails with NoProviderAvailable when no default of its kind   *)
(* is recorded.                                                             *)
C13_NoProviderAvailable_Claimed ==
    [][/\ CallsResolvedProvider
       /\ (TtsEntry \/ SttEntry) => \A k \in EntryKeyInputs : NoDefaultNoCall(k)]_vars

(* C13 amended: the provider called is the one the request names, else the  *)
(* recorded default of the request's own kind.  A request that passed the   *)
(* key check, names no provider and finds no default of its kind fails with *)
(* NoProviderAvailable and calls no provider; a request that names a        *)
(* registered provider calls it whatever the defaults are.  A request whose *)
(* key is not stored fails with UnknownKey before the provider is resolved. *)
C13_ProviderResolution ==
    [][/\ CallsResolvedProvider
       /\ (TtsEntry \/ SttEntry) =>
              \A k \in EntryKeyInputs :
                  IF k = None \/ KeyStored(api_keys, k[1])
                  THEN /\ NoDefaultNoCall(k)
                       /\ (Registered(OpenAI) /\ tts(TtsOf(Some(OpenAI), k))) =>
                              req'.pc = "tts_call" /\ req'.provider = OpenAI
                       /\ (Registered(OpenAI) /\ stt(SttOf(Some(OpenAI), k))) =>
                              req'.pc = "stt_call" /\ req'.provider = OpenAI
                  ELSE (tts(TtsOf(None, k)) \/ stt(SttOf(None, k))) =>
                           /\ ~last'.ok
                           /\ last'.out = "Invalid API key"
                           /\ req' = Idle]_vars

(* C13 witness: a tts request without a key and without a provider was      *)
(* refused with NoProviderAvailable while the provider was registered and   *)
(* recorded as the STT default only.                                        *)
C13_Witness ==
    /\ last.op = "tts"
    /\ ~last.ok
    /\ last.out = NoProviderAvailable
    /\ req = Idle
    /\ Registered(OpenAI)
    /\ default_tts_provider = None
    /\ default_stt_provider = Some(OpenAI)

AuthErrors == {"API key required", "Invalid API key", "Admin permission required"}

(* the handler has just returned, refusing the caller's key with error e *)
RefusedWith(e) == req' = Idle /\ ~last'.ok /\ last'.out = e

RefusedByAuth == req' = Idle /\ ~last'.ok /\ last'.out \in AuthErrors

(* what C14 says of one request of caller key k once it has entered *)
OptionalKey(k) ==
    IF k = None THEN ~RefusedByAuth
    ELSE IF KeyStored(api_keys, k[1]) THEN ~RefusedByAuth
    ELSE RefusedWith("Invalid API key")

(* C14: tts and stt called without an api_key are never refused by the key  *)
(* check; called with an api_key they are refused with UnknownKey exactly   *)
(* when the key is not stored, and a stored key of either role is accepted. *)
C14_OptionalAuth ==
    [][/\ TtsEntry =>
              \A k \in EntryKeyInputs, p \in {None, Some(OpenAI)} :
                  tts(TtsOf(p, k)) => OptionalKey(k)
       /\ SttEntry =>
              \A k \in EntryKeyInputs, p \in {None, Some(OpenAI)} :
                  stt(SttOf(p, k)) => OptionalKey(k)]_vars

(* C14 witness: an stt request made with a stored Requestor key passed the  *)
(* key check and is at its provider call, after a tts request with a key    *)
(* that is not stored was refused.                                          *)
C14_Witness ==
    /\ req.pc = "stt_call"
    /\ req.request.api_key = Some(KeyString(Requestor, 2))
    /\ KeyStored(api_keys, KeyString(Requestor, 2))
    /\ last.op = "tts"
    /\ ~last.ok
    /\ last.out = "Invalid API key"

(* what C15 says validate_api_key returns *)
Validation(keys, api_key, require_admin) ==
    IF api_key = None THEN Err("API key required")
    ELSE IF ~KeyStored(keys, api_key[1]) THEN Err("Invalid API key")
    ELSE IF require_admin /\ ~StoredAdmin(keys, api_key)
         THEN Err("Admin permission required")
         ELSE Ok(<<>>)

(* C15: validate_api_key(key, require_admin) fails with MissingKey when no  *)
(* key is supplied, else with UnknownKey when the key is not stored, else   *)
(* with InsufficientRole when require_admin is set and the key's role is    *)
(* not Admin, else succeeds; a handler that it refuses changes nothing.     *)
C15_ValidateApiKey ==
    /\ [](\A k \in RegKeyInputs, require_admin \in BOOLEAN :
              validate_api_key(api_keys, k, require_admin) =
                  Validation(api_keys, k, require_admin))
    /\ [][(~last'.ok /\ last'.out \in AuthErrors) =>
              UNCHANGED <<providers, api_keys, default_tts_provider,
                          default_stt_provider, admin_key, storage_initialized,
                          started, drive, vfs, clock, key_serial, pair_serial,
                          req, saved>>]_vars

(* C15 witness: with a Requestor key stored, validate_api_key has refused   *)
(* it for list_api_keys, and the other three outcomes arise for a missing   *)
(* key, a key that is not stored and the same Requestor key without         *)
(* require_admin.                                                           *)
C15_Witness ==
    /\ last.op = "list_api_keys"
    /\ ~last.ok
    /\ last.out = "Admin permission required"
    /\ validate_api_key(api_keys, Some(KeyString(Requestor, 2)), TRUE) =
           Err("Admin permission required")
    /\ validate_api_key(api_keys, Some(KeyString(Requestor, 2)), FALSE) = Ok(<<>>)
    /\ validate_api_key(api_keys, Some(NotAKey), FALSE) = Err("Invalid API key")
    /\ validate_api_key(api_keys, None, FALSE) = Err("API key required")

(* C16: set_default_provider called with a stored Admin key fails with      *)
(* ProviderNotConfigured when the provider has no entry, and with           *)
(* InvalidKind when it has one and the kind is neither "tts" nor "stt";     *)
(* both failures leave every entry's flags and both recorded defaults as    *)
(* they were.  With an entry and a valid kind it succeeds.                  *)
C16_SetDefaultErrors ==
    [][last'.op = "set_default_provider" =>
          \A k \in RegKeyInputs, p \in Provider, t \in ProviderTypeInputs :
              (StoredAdmin(api_keys, k) /\ set_default_provider(k, p, t)) =>
                  IF ~Registered(p)
                  THEN /\ ~last'.ok
                       /\ last'.out = "Provider not configured"
                       /\ UNCHANGED <<providers, default_tts_provider,
                                      default_stt_provider>>
                  ELSE IF t \notin {"tts", "stt"}
                  THEN /\ ~last'.ok
                       /\ last'.out = "Invalid type: must be 'tts' or 'stt'"
                       /\ UNCHANGED <<providers, default_tts_provider,
                                      default_stt_provider>>
                  ELSE last'.ok]_vars

(* C16 witness: set_default_provider was refused for its kind while the     *)
(* provider's entry was the TTS default and no STT default was recorded.    *)
C16_Witness ==
    /\ last.op = "set_default_provider"
    /\ ~last.ok
    /\ last.out = "Invalid type: must be 'tts' or 'stt'"
    /\ Cardinality(DefaultTtsEntries) = 1
    /\ default_tts_provider = Some(OpenAI)
    /\ default_stt_provider = None

OtherEntries(ps, provider) == SelectSeq(ps, LAMBDA q : q.provider # provider)

EntriesOf(ps, provider) == SelectSeq(ps, LAMBDA q : q.provider = provider)

(* C18: the registry never holds two entries of one provider; add_provider  *)
(* called with a stored Admin key leaves exactly one entry of the config's  *)
(* provider, which is the new config whole (credential, flags, default      *)
(* voice and speed), whether or not the provider was registered before.     *)
C18_OneEntryPerProvider ==
    /\ [](\A p \in Provider : Len(EntriesOf(providers, p)) <= 1)
    /\ [][(last'.op = "add_provider" /\ last'.ok) =>
              \A k \in RegKeyInputs, c \in RegConfigInputs :
                  add_provider(k, c) =>
                      /\ EntriesOf(providers', c.provider) = <<c>>
                      /\ Len(providers') =
                             Len(OtherEntries(providers, c.provider)) + 1]_vars

(* C18 witness: add_provider has replaced the provider's entry: the one     *)
(* entry has the new credential, voice and speed and is not flagged as the  *)
(* TTS default, while the TTS default recorded for the entry it replaced is *)
(* still there.                                                             *)
C18_Witness ==
    /\ last.op = "add_provider"
    /\ last.ok
    /\ providers = <<ProviderConfig(OpenAI, "sk-2", FALSE, TRUE, Some("alloy"), Some(10))>>
    /\ default_tts_provider = Some(OpenAI)

Loads(name) == load_audio_text_pair_by_path(vfs, name).ok

(* the number of pair directories whose name is not below name: its place   *)
(* in the listing sorted by name, descending                                *)
Rank(name) == Cardinality({m \in DOMAIN vfs : m >= name})

(* the names of the directories of a page that load, greatest first *)
LoadableOfPage(limit, offset) ==
    SelectSeq(SortDescending({n \in DOMAIN vfs : Loads(n)}),
              LAMBDA n : offset < Rank(n) /\ Rank(n) <= offset + limit)

(* C19: load_page succeeds whenever the drive can be opened, whatever the   *)
(* state of the records: it returns, in descending order of directory       *)
(* name, the records that load among the limit directories after the first  *)
(* offset, leaves out those whose metadata or audio file is missing or does *)
(* not parse, and never returns more than limit records.                    *)
C19_PageOmitsUnloadable ==
    \A limit \in 0..(StoreMaxLimit + 1), offset \in 0..StoreMaxPairs :
        /\ Page(limit, offset).ok = drive
        /\ drive =>
               LET names == LoadableOfPage(limit, offset)
                   page == Page(limit, offset).val
               IN  /\ Len(page) <= limit
                   /\ Len(page) = Len(names)
                   /\ \A i \in DOMAIN page :
                          Ok(page[i]) = load_audio_text_pair_by_path(vfs, names[i])
                   /\ \A i, j \in DOMAIN names : i < j => names[i] > names[j]

(* C19 witness: get_history has returned a page of one record out of two    *)
(* directories; the directory it left out has the greater name and holds a  *)
(* metadata file that was created and never written.                        *)
C19_Witness ==
    /\ last.op = "get_history"
    /\ last.ok
    /\ Len(last.out) = 1
    /\ last.out = Page(2, 0).val
    /\ Cardinality(DOMAIN vfs) = 2
    /\ \E d \in DOMAIN vfs :
           /\ d > last.out[1].id
           /\ HasFile(vfs, d, MetadataFile)
           /\ vfs[d][MetadataFile] = EmptyFile
           /\ ~Loads(d)

(* C20: the storage-initialization step never fails.  Its first run sets    *)
(* storage_initialized whether create_drive succeeds or not; every later    *)
(* run does not create the drive and changes nothing.                       *)
C20_StorageInitIdempotent ==
    /\ [](started => storage_initialized)
    /\ [][last'.op = "initialize" =>
              \A drive_ok \in BOOLEAN :
                  initialize(drive_ok) =>
                      /\ last'.ok
                      /\ storage_initialized'
                      /\ ~storage_initialized => drive' = (drive \/ drive_ok)
                      /\ storage_initialized =>
                             UNCHANGED <<drive, storage_initialized, vfs,
                                         providers, api_keys, admin_key,
                                         default_tts_provider,
                                         default_stt_provider, clock,
                                         key_serial, pair_serial, req, saved>>]_vars
    /\ [][storage_initialized => UNCHANGED <<drive, storage_initialized>>]_vars

(* C20 witness: the first run could not create the drive, a save was        *)
(* started and failed, and initialize has run again: storage_initialized is *)
(* set and the drive is still missing.                                      *)
C20_Witness ==
    /\ last.op = "initialize"
    /\ last.ok
    /\ storage_initialized
    /\ ~drive
    /\ pair_serial = 1
    /\ req = Idle
    /\ saved = <<>>

MutatingOps ==
    {"add_provider", "remove_provider", "set_default_provider",
     "generate_api_key", "revoke_api_key"}

(* a complete call of one of the five mutating operations by the            *)
(* administrator, from its key check to its response                        *)
MutatingCall ==
    \/ last'.op = "add_provider" /\ \E c \in ConfigInputs : add_provider(FrameKey, c)
    \/ last'.op = "remove_provider" /\ remove_provider(FrameKey, OpenAI)
    \/ /\ last'.op = "set_default_provider"
       /\ \E t \in {"tts", "stt"} : set_default_provider(FrameKey, OpenAI, t)
    \/ /\ last'.op = "generate_api_key"
       /\ generate_api_key(FrameKey, "ci", Requestor)
    \/ /\ last'.op = "revoke_api_key"
       /\ revoke_api_key(FrameKey, KeyString(Requestor, 2))

(* C21: add_provider, remove_provider, set_default_provider,                *)
(* generate_api_key and revoke_api_key each run from the key check to the   *)
(* completed update in one step.  Every step that changes the provider      *)
(* entries, the recorded defaults or the keys is one whole call of one of   *)
(* them (or the initialization that stores the first key), checked against  *)
(* the keys of the state it updates, and it leaves a suspended tts/stt      *)
(* request as it was; a step of a suspended request, at the provider call   *)
(* or at any VFS call of the save, changes none of them.                    *)
C21_MutatingOpsAtomic ==
    [][/\ ~RegistryAndKeysUnchanged =>
              /\ req' = req
              /\ last'.ok
              /\ \/ last'.op = "initialize" /\ ~started
                 \/ /\ last'.op \in MutatingOps
                    /\ StoredAdmin(api_keys, FrameKey)
                    /\ MutatingCall
       /\ (req # Idle /\ req' # req) =>
              /\ RegistryAndKeysUnchanged
              /\ last'.op \notin MutatingOps \/ last' = last
       /\ (last'.op \in MutatingOps /\ last' # last) => req' = req]_vars

(* C21 witness: while a tts request made with a Requestor key is suspended  *)
(* at the provider call, revoke_api_key has removed that key and returned;  *)
(* the request is still suspended with the call it built.                   *)
C21_Witness ==
    /\ req.pc = "tts_call"
    /\ req.request.api_key = Some(KeyString(Requestor, 2))
    /\ ~KeyStored(api_keys, KeyString(Requestor, 2))
    /\ last.op = "revoke_api_key"
    /\ last.ok
    /\ req.call.api_key = "sk-1"

(* C22: a load_by_id that runs between two steps of the save of the same id *)
(* (after the directory creation, the metadata file creation, the metadata  *)
(* write or the audio file creation) fails with an error or returns the     *)
(* complete pair; it never succeeds with empty or partial audio or          *)
(* metadata.                                                                *)
C22_RacingLoadNeverPartial ==
    [][(req.pc \in SavePcs /\ last'.op = "get_audio_text_pair") =>
           (get_audio_text_pair(req.pair.id) =>
                (~last'.ok \/ last'.out = req.pair))]_vars

SavedPairs == {saved[i] : i \in DOMAIN saved}

(* C23: a save that failed at any of its VFS calls leaves nothing that a    *)
(* load returns: with no save in progress, every pair that load_by_id or    *)
(* load_page returns equals, in every field and in its audio bytes, the     *)
(* pair of a save that completed successfully.                              *)
C23_LoadsOnlyCompletedSaves ==
    [][/\ (req = Idle /\ last'.op = "get_audio_text_pair") =>
              \A id \in FrameIds :
                  (get_audio_text_pair(id) /\ last'.ok) =>
                      last'.out \in SavedPairs
       /\ (req = Idle /\ last'.op = "get_history" /\ get_history(None, None)
               /\ last'.ok) =>
              \A j \in DOMAIN last'.out : last'.out[j] \in SavedPairs]_vars

FlaggedTts(p) ==
    \E i \in DOMAIN providers : providers[i].provider = p /\ providers[i].is_default_tts

FlaggedStt(p) ==
    \E i \in DOMAIN providers : providers[i].provider = p /\ providers[i].is_default_stt

(* C24: in every reachable state the recorded default of a kind and the     *)
(* flag of the entries agree: default_tts_provider is Some(p) exactly when  *)
(* the registered entry of p has is_default_tts set, and the same for STT,  *)
(* also after add_provider has replaced the entry of the current default by *)
(* a config whose flag is false.                                            *)
C24_DefaultAgreesWithFlag ==
    \A p \in Provider :
        /\ (default_tts_provider = Some(p)) <=> FlaggedTts(p)
        /\ (default_stt_provider = Some(p)) <=> FlaggedStt(p)

DispatchErrors == {NoProviderAvailable, "OpenAI TTS error", "OpenAI STT error"}

DecodeFailed == "Failed to decode audio data"

DefaultsRegistered ==
    \A p \in Provider :
        /\ default_tts_provider = Some(p) => Registered(p)
        /\ default_stt_provider = Some(p) => Registered(p)

(* every tts or stt request that names no provider and returns an error in  *)
(* this step returns one of errors                                          *)
OmittingFailsWith(errors) ==
    /\ (TtsEntry /\ req' = Idle /\ ~last'.ok) =>
           /\ \A r \in ReqTtsInputs :
                  (r.provider = None /\ tts(r)) => last'.out \in errors
           /\ (default_tts_provider = None /\ test_tts("hi")) => last'.out \in errors
    /\ (SttEntry /\ req' = Idle /\ ~last'.ok) =>
           /\ \A r \in ReqSttInputs :
                  (r.provider = None /\ stt(r)) => last'.out \in errors
           /\ (default_stt_provider = None /\ test_stt(Base64Encode(AudioB))) =>
                  last'.out \in errors
    /\ (req.pc \in {"tts_call", "stt_call"} /\ req' = Idle) =>
           (req.request.provider = None => ~last'.ok /\ last'.out \in errors)

(* C25 as claimed: a recorded default names a registered provider, and a    *)
(* tts/stt request that omits the provider fails only with                  *)
(* NoProviderAvailable or ProviderCallFailed.                               *)
C25_OnlyDispatchErrors_Claimed ==
    /\ []DefaultsRegistered
    /\ [][OmittingFailsWith(DispatchErrors)]_vars

(* C25 amended: in every reachable state a recorded default names a         *)
(* provider that has a registry entry, so a tts/stt request that omits the  *)
(* provider never fails with ProviderNotConfigured.  Its failures are those *)
(* of the key check, which comes first, NoProviderAvailable, for stt the    *)
(* decoding of the audio, and ProviderCallFailed.                           *)
C25_DefaultNamesRegisteredProvider ==
    /\ []DefaultsRegistered
    /\ [][OmittingFailsWith(AuthErrors \cup DispatchErrors \cup {DecodeFailed})]_vars

(* C25 witness: a tts request that names no provider is at its provider     *)
(* call, resolved to the TTS default, whose entry add_provider has replaced *)
(* by one flagged false; an stt request that named no provider was refused  *)
(* with NoProviderAvailable.                                                *)
C25_Witness ==
    /\ req.pc = "tts_call"
    /\ req.request.provider = None
    /\ req.provider = OpenAI
    /\ default_tts_provider = Some(OpenAI)
    /\ Registered(OpenAI)
    /\ ~FlaggedTts(OpenAI)
    /\ default_stt_provider = None
    /\ last.op = "stt"
    /\ ~last.ok
    /\ last.out = NoProviderAvailable

(* C26: the format tag of a successful tts response, which is also the      *)
(* audio_format of the persisted pair, names the format the provider was    *)
(* asked for; when the request's format is absent or is not one of mp3,     *)
(* opus, aac, flac, wav, pcm, the provider is asked for mp3 and the tag is  *)
(* "mp3".                                                                   *)
C26_FormatTagNamesRequestedFormat ==
    [][/\ (req.pc = "tts_call" /\ req'.pc = "open_dir") =>
              /\ req.call.response_format =
                     IF req.request.format \in {Some(f) : f \in OfferedFormats}
                     THEN req.request.format[1] ELSE "mp3"
              /\ req'.response.format = req.call.response_format
              /\ req'.pair.audio_format = req.call.response_format
       /\ (req.pc \in SavePcs /\ req.op = "tts" /\ req' = Idle) =>
              /\ last'.ok
              /\ last'.out.format = req.pair.audio_format
              /\ \A i \in DOMAIN saved' : saved'[i].audio_format = last'.out.format]_vars

====
